---- MODULE Spec2Model ----
(***************************************************************************)
(* json5kit/nodes.py: the node classes of a lossless JSON5 syntax tree and *)
(* their two serializers, to_json5 (back to source) and to_json (minimal). *)
(*                                                                         *)
(* A string is modelled as the sequence of its lexemes ("[", "1", " ",     *)
(* "// a,b", ...); Python's + and "".join are sequence concatenation.      *)
(* A node is a record; its "id" field is the Python object identity.       *)
(***************************************************************************)
EXTENDS Integers, Sequences, FiniteSets, TLC

VARIABLES
    stack,    \* containers under construction, innermost last: [node, pending]
    root,     \* <<>> or <<n>>: the finished tree
    nextId,   \* identity of the next object constructed
    pc,       \* "build" | "parse" | "done"
    op,       \* name of the last operation
    result,   \* outcome of the last to_json5()/to_json() call on the root
    input,    \* parser: lexemes not yet consumed
    text,     \* parser: the whole text being parsed
    filler,   \* parser: trivia read and not yet attached
    canon,    \* to_json() of the tree that was re-parsed, <<>> if none
    edits     \* assignments made to primitives of the finished tree

vars == <<stack, root, nextId, pc, op, result, input, text, filler, canon, edits>>

----------------------------------------------------------------------------
\* Bounds of the model.

MaxNodes == 6      \* value nodes a client constructs
MaxDepth == 2      \* containers open at once
MaxMembers == 3    \* children of one container
MaxEdits == 1      \* assignments to primitives of a finished tree

----------------------------------------------------------------------------
\* Trivia nodes (nodes.py 163-179).

Json5Trivia(cls, source) == [cls |-> cls, source |-> source]

Json5Comment == Json5Trivia("Json5Comment", "// a,b")

Json5Whitespace == Json5Trivia("Json5Whitespace", " ")

Json5Newline == Json5Trivia("Json5Newline", "\n")

\* The module comment counts trailing commas among the trivia; there is no
\* class of their own for them, so one is a plain Json5Trivia.
TrailingComma == Json5Trivia("Json5Trivia", ",")

\* The (source, trailing trivia) pairs a client hands to a primitive's
\* constructor.
Literals ==
    { <<"1", <<>>>>,
      <<"0x1", <<Json5Whitespace, TrailingComma>>>>,
      <<"null", <<Json5Comment, Json5Newline>>>> }

\* The (leading, trailing) pairs a client hands to a container constructor.
ScopeTrivia ==
    { <<<<>>, <<>>>>,
      <<<<Json5Comment, Json5Newline>>, <<Json5Whitespace>>>>,
      <<<<Json5Whitespace>>, <<TrailingComma, Json5Newline>>>> }

\* Literal tokens and the value each decodes to.
Sources == {"null", "true", "1", "0x1"}

Decode(source) ==
    CASE source = "null" -> "None"
      [] source = "true" -> "True"
      [] source \in {"1", "0x1"} -> "int:1"

TriviaSources == {" ", "\n", "// a,b"}

----------------------------------------------------------------------------
\* Constructors.

Json5Primitive(id, source, value, trailing_trivia_nodes) ==
    [kind |-> "primitive", id |-> id, source |-> source, value |-> value,
     trailing_trivia_nodes |-> trailing_trivia_nodes]

Json5Null(id, trailing_trivia_nodes) ==
    Json5Primitive(id, "null", "None", trailing_trivia_nodes)

Json5Container(id, leading_trivia_nodes, trailing_trivia_nodes) ==
    [kind |-> "container", id |-> id,
     leading_trivia_nodes |-> leading_trivia_nodes,
     trailing_trivia_nodes |-> trailing_trivia_nodes]

Json5Array(id, leading_trivia_nodes, trailing_trivia_nodes) ==
    [kind |-> "array", id |-> id,
     leading_trivia_nodes |-> leading_trivia_nodes,
     trailing_trivia_nodes |-> trailing_trivia_nodes,
     members |-> <<>>]

Json5Object(id, leading_trivia_nodes, trailing_trivia_nodes) ==
    [kind |-> "object", id |-> id,
     leading_trivia_nodes |-> leading_trivia_nodes,
     trailing_trivia_nodes |-> trailing_trivia_nodes,
     data |-> <<>>]

\* The constructor call for a literal token: Json5Null takes no source.
NewLiteral(id, source, trivia) ==
    IF source = "null" THEN Json5Null(id, trivia)
    ELSE Json5Primitive(id, source, Decode(source), trivia)

----------------------------------------------------------------------------
\* Python's str.join and the "".join over trivia sources.

RECURSIVE Join(_, _)
Join(sep, parts) ==
    IF Len(parts) = 0 THEN <<>>
    ELSE IF Len(parts) = 1 THEN parts[1]
    ELSE parts[1] \o sep \o Join(sep, Tail(parts))

TriviaSource(trivia) == [i \in 1..Len(trivia) |-> trivia[i].source]

----------------------------------------------------------------------------
\* list.append on Json5Array.members.
MembersAppend(a, n) == [a EXCEPT !.members = Append(@, n)]

\* dict.__setitem__ on Json5Object.data. Json5Primitive defines neither
\* __eq__ nor __hash__, so two keys are the same key iff they are the same
\* object; an existing key keeps its place and gets the new value.
KeyIndex(data, key) == { i \in 1..Len(data) : data[i].key.id = key.id }

DataSetItemByValue(o, key, value) ==
    LET hit == { i \in 1..Len(o.data) : o.data[i].key.value = key.value }
    IN IF hit # {}
       THEN [o EXCEPT !.data =
                [i \in 1..Len(@) |->
                    IF i \in hit THEN [key |-> @[i].key, value |-> value]
                    ELSE @[i]]]
       ELSE [o EXCEPT !.data = Append(@, [key |-> key, value |-> value])]

DataSetItem(o, key, value) ==
    IF KeyIndex(o.data, key) # {}
    THEN [o EXCEPT !.data =
             [i \in 1..Len(@) |->
                 IF i \in KeyIndex(o.data, key)
                 THEN [key |-> @[i].key, value |-> value]
                 ELSE @[i]]]
    ELSE [o EXCEPT !.data = Append(@, [key |-> key, value |-> value])]

\* Assignment to the source and value attributes of a primitive.
SetSourceRebuild(n, source, value) ==
    Json5Primitive(n.id, source, value, <<>>)

SetSource(n, source, value) ==
    [n EXCEPT !.source = source, !.value = value]

----------------------------------------------------------------------------
\* The serializers.

RECURSIVE to_json5(_), to_json(_)

Json5Primitive_to_json5(n) ==
    <<n.source>> \o TriviaSource(n.trailing_trivia_nodes)

Json5Primitive_to_json(n) == <<n.source>>

\* Json5Container.to_json5 and .to_json raise NotImplementedError.
Json5Container_raises(n) == n.kind = "container"

Json5Array_to_json5_SepAfterEach(n) ==
    <<"[">>
    \o TriviaSource(n.leading_trivia_nodes)
    \o Join(<<>>, [i \in 1..Len(n.members) |-> to_json5(n.members[i]) \o <<",">>])
    \o TriviaSource(n.trailing_trivia_nodes)
    \o <<"]">>

Json5Array_to_json5_NoLeading(n) ==
    <<"[">>
    \o Join(<<",">>, [i \in 1..Len(n.members) |-> to_json5(n.members[i])])
    \o TriviaSource(n.trailing_trivia_nodes)
    \o <<"]">>

Json5Array_to_json5(n) ==
    <<"[">>
    \o TriviaSource(n.leading_trivia_nodes)
    \o Join(<<",">>, [i \in 1..Len(n.members) |-> to_json5(n.members[i])])
    \o TriviaSource(n.trailing_trivia_nodes)
    \o <<"]">>

Json5Array_to_json_DropLast(n) ==
    <<"[">>
    \o Join(<<",">>, [i \in 1..(Len(n.members) - 1) |-> to_json(n.members[i])])
    \o <<"]">>

Json5Array_to_json_WithTrailing(n) ==
    <<"[">>
    \o Join(<<",">>, [i \in 1..Len(n.members) |-> to_json(n.members[i])])
    \o TriviaSource(n.trailing_trivia_nodes)
    \o <<"]">>

Json5Array_to_json(n) ==
    <<"[">>
    \o Join(<<",">>, [i \in 1..Len(n.members) |-> to_json(n.members[i])])
    \o <<"]">>

Json5Object_to_json5_BareKey(n) ==
    <<"{">>
    \o TriviaSource(n.leading_trivia_nodes)
    \o Join(<<",">>,
            [i \in 1..Len(n.data) |->
                to_json(n.data[i].key) \o <<":">> \o to_json5(n.data[i].value)])
    \o TriviaSource(n.trailing_trivia_nodes)
    \o <<"}">>

Json5Object_to_json5(n) ==
    <<"{">>
    \o TriviaSource(n.leading_trivia_nodes)
    \o Join(<<",">>,
            [i \in 1..Len(n.data) |->
                to_json5(n.data[i].key) \o <<":">> \o to_json5(n.data[i].value)])
    \o TriviaSource(n.trailing_trivia_nodes)
    \o <<"}">>

Json5Object_to_json_KeyTrivia(n) ==
    <<"{">>
    \o Join(<<",">>,
            [i \in 1..Len(n.data) |->
                to_json5(n.data[i].key) \o <<":">> \o to_json(n.data[i].value)])
    \o <<"}">>

Json5Object_to_json(n) ==
    <<"{">>
    \o Join(<<",">>,
            [i \in 1..Len(n.data) |->
                to_json(n.data[i].key) \o <<":">> \o to_json(n.data[i].value)])
    \o <<"}">>

to_json5(n) ==
    CASE n.kind = "primitive" -> Json5Primitive_to_json5(n)
      [] n.kind = "array" -> Json5Array_to_json5(n)
      [] n.kind = "object" -> Json5Object_to_json5(n)

to_json(n) ==
    CASE n.kind = "primitive" -> Json5Primitive_to_json(n)
      [] n.kind = "array" -> Json5Array_to_json(n)
      [] n.kind = "object" -> Json5Object_to_json(n)

\* What a call of node.to_json5() / node.to_json() gives its caller.
CallResult(raised, out) == [raised |-> raised, out |-> out]

NoResult == CallResult(FALSE, <<>>)

Call_to_json5(n) ==
    IF Json5Container_raises(n) THEN CallResult(TRUE, <<>>)
    ELSE CallResult(FALSE, to_json5(n))

Call_to_json(n) ==
    IF Json5Container_raises(n) THEN CallResult(TRUE, <<>>)
    ELSE CallResult(FALSE, to_json(n))

----------------------------------------------------------------------------
\* Addressing the primitives of a tree. A path is a sequence of steps: in an
\* array, step i is member i; in an object, step 2i-1 is the key of entry i
\* and step 2i is its value.

RECURSIVE PrimPaths(_), ReplaceAt(_, _, _, _), NodeAt(_, _)

PrimPaths(n) ==
    CASE n.kind = "primitive" -> { <<>> }
      [] n.kind = "array" ->
            UNION { { <<i>> \o p : p \in PrimPaths(n.members[i]) } :
                    i \in 1..Len(n.members) }
      [] n.kind = "object" ->
            UNION { { <<2 * i - 1>> } \cup
                    { <<2 * i>> \o p : p \in PrimPaths(n.data[i].value) } :
                    i \in 1..Len(n.data) }
      [] OTHER -> {}

NodeAt(n, path) ==
    IF path = <<>> THEN n
    ELSE CASE n.kind = "array" -> NodeAt(n.members[path[1]], Tail(path))
           [] n.kind = "object" ->
                IF path[1] % 2 = 1
                THEN NodeAt(n.data[(path[1] + 1) \div 2].key, Tail(path))
                ELSE NodeAt(n.data[path[1] \div 2].value, Tail(path))

ReplaceAt(n, path, source, value) ==
    IF path = <<>> THEN SetSource(n, source, value)
    ELSE CASE n.kind = "array" ->
                [n EXCEPT !.members[path[1]] =
                    ReplaceAt(@, Tail(path), source, value)]
           [] n.kind = "object" ->
                IF path[1] % 2 = 1
                THEN [n EXCEPT !.data[(path[1] + 1) \div 2].key =
                        ReplaceAt(@, Tail(path), source, value)]
                ELSE [n EXCEPT !.data[path[1] \div 2].value =
                        ReplaceAt(@, Tail(path), source, value)]

----------------------------------------------------------------------------
\* A client building a tree with the constructors, members.append and
\* data[key] = value. A frame of the stack is a container whose children are
\* still being added; "pending" holds the key that waits for its value.

Frame(node, pending) == [node |-> node, pending |-> pending]

Top == stack[Len(stack)]

Children(n) ==
    CASE n.kind = "array" -> n.members
      [] n.kind = "object" -> n.data
      [] OTHER -> <<>>

CanTake(f) ==
    IF f.node.kind = "array" THEN Len(f.node.members) < MaxMembers
    ELSE f.pending # <<>>

\* members.append(v) on an array, data[key] = v on an object.
Attach(f, v) ==
    IF f.node.kind = "array"
    THEN Frame(MembersAppend(f.node, v), <<>>)
    ELSE Frame(DataSetItem(f.node, f.pending[1], v), <<>>)

\* The value v is complete: it goes to its parent, or it is the tree.
Deliver(stk, v, nextpc) ==
    IF stk = <<>>
    THEN /\ stack' = <<>>
         /\ root' = <<v>>
         /\ pc' = nextpc
    ELSE /\ stack' = [stk EXCEPT ![Len(stk)] = Attach(@, v)]
         /\ root' = root
         /\ pc' = pc

Room == IF stack = <<>> THEN TRUE ELSE CanTake(Top)

NewPrimitive(lit) ==
    /\ pc = "build"
    /\ nextId <= MaxNodes
    /\ Room
    /\ Deliver(stack, NewLiteral(nextId, lit[1], lit[2]), "done")
    /\ nextId' = nextId + 1
    /\ op' = "NewPrimitive"
    /\ UNCHANGED <<result, input, text, filler, canon, edits>>

NewArray(trivia) ==
    /\ pc = "build"
    /\ nextId <= MaxNodes
    /\ Len(stack) < MaxDepth
    /\ Room
    /\ stack' = Append(stack, Frame(Json5Array(nextId, trivia[1], trivia[2]), <<>>))
    /\ nextId' = nextId + 1
    /\ op' = "NewArray"
    /\ UNCHANGED <<root, pc, result, input, text, filler, canon, edits>>

NewObject(trivia) ==
    /\ pc = "build"
    /\ nextId <= MaxNodes
    /\ Len(stack) < MaxDepth
    /\ Room
    /\ stack' = Append(stack, Frame(Json5Object(nextId, trivia[1], trivia[2]), <<>>))
    /\ nextId' = nextId + 1
    /\ op' = "NewObject"
    /\ UNCHANGED <<root, pc, result, input, text, filler, canon, edits>>

\* The base class itself, the only class there is for a file node.
NewContainer(trivia) ==
    /\ pc = "build"
    /\ stack = <<>>
    /\ root' = <<Json5Container(nextId, trivia[1], trivia[2])>>
    /\ nextId' = nextId + 1
    /\ pc' = "done"
    /\ op' = "NewContainer"
    /\ UNCHANGED <<stack, result, input, text, filler, canon, edits>>

\* A new primitive that will be the key of the next data[key] = value.
NewKey(lit) ==
    /\ pc = "build"
    /\ nextId < MaxNodes
    /\ stack # <<>>
    /\ Top.node.kind = "object"
    /\ Top.pending = <<>>
    /\ Len(Top.node.data) < MaxMembers
    /\ stack' = [stack EXCEPT ![Len(stack)].pending =
                    <<NewLiteral(nextId, lit[1], lit[2])>>]
    /\ nextId' = nextId + 1
    /\ op' = "NewKey"
    /\ UNCHANGED <<root, pc, result, input, text, filler, canon, edits>>

\* The key object of entry i is used again for the next data[key] = value.
ReuseKey(i) ==
    /\ pc = "build"
    /\ nextId <= MaxNodes
    /\ stack # <<>>
    /\ Top.node.kind = "object"
    /\ Top.pending = <<>>
    /\ i \in 1..Len(Top.node.data)
    /\ stack' = [stack EXCEPT ![Len(stack)].pending = <<Top.node.data[i].key>>]
    /\ op' = "ReuseKey"
    /\ UNCHANGED <<root, nextId, pc, result, input, text, filler, canon, edits>>

\* The innermost container has all its children.
Close ==
    /\ pc = "build"
    /\ stack # <<>>
    /\ Top.pending = <<>>
    /\ Deliver(SubSeq(stack, 1, Len(stack) - 1), Top.node, "done")
    /\ op' = "Close"
    /\ UNCHANGED <<nextId, result, input, text, filler, canon, edits>>

\* primitive.source = source; primitive.value = value, anywhere in the tree.
SetPrimitive(path, source) ==
    /\ pc = "done"
    /\ root # <<>>
    /\ edits < MaxEdits
    /\ path \in PrimPaths(root[1])
    /\ NodeAt(root[1], path).source # source
    /\ root' = <<ReplaceAt(root[1], path, source, Decode(source))>>
    /\ op' = "SetPrimitive"
    /\ result' = NoResult
    /\ edits' = edits + 1
    /\ UNCHANGED <<stack, nextId, pc, input, text, filler, canon>>

CallToJson5 ==
    /\ pc = "done"
    /\ root # <<>>
    /\ result' = Call_to_json5(root[1])
    /\ op' = "to_json5"
    /\ UNCHANGED <<stack, root, nextId, pc, input, text, filler, canon, edits>>

CallToJson ==
    /\ pc = "done"
    /\ root # <<>>
    /\ result' = Call_to_json(root[1])
    /\ op' = "to_json"
    /\ UNCHANGED <<stack, root, nextId, pc, input, text, filler, canon, edits>>

----------------------------------------------------------------------------
\* The parser, which is not in nodes.py: it reads the text lexeme by lexeme
\* and builds the tree with the constructors above, attaching each run of
\* filler by the attachment rule: after the opening delimiter, to the
\* container's leading trivia; before the closing delimiter, to the
\* container's trailing trivia; anywhere else, to the trailing trivia of the
\* child that precedes it.

Fill2 == { <<>>, <<" ">> }

Fill3 == { <<>>, <<" ">>, <<"// a,b", "\n">> }

Lits == { <<"1">>, <<"null">> }

Texts1 ==
    Lits
    \cup { <<"[">> \o f \o <<"]">> : f \in Fill3 }
    \cup { <<"[">> \o f \o v \o g \o <<"]">> : f \in Fill2, g \in Fill2, v \in Lits }
    \cup { <<"[">> \o f \o v \o g \o <<",">> \o h \o w \o k \o <<"]">> :
             f \in {<<>>}, g \in Fill2, h \in Fill2, k \in Fill2,
             v \in Lits, w \in Lits }
    \cup { <<"{">> \o f \o <<"}">> : f \in Fill3 }
    \cup { <<"{">> \o f \o v \o g \o <<":">> \o h \o w \o k \o <<"}">> :
             f \in Fill2, g \in Fill2, h \in Fill2, k \in {<<>>},
             v \in Lits, w \in Lits }
    \cup { <<"{", "1", ":", "null", ",">> \o f \o <<"0x1">> \o g \o <<":", "true", "}">> :
             f \in Fill2, g \in Fill2 }

ValidTexts ==
    Texts1
    \cup { <<"[">> \o v \o g \o <<"]">> : g \in Fill3, v \in Texts1 }
    \cup { <<"[">> \o v \o g \o <<",">> \o h \o <<"true", "]">> :
             g \in Fill2, h \in Fill2, v \in Texts1 }
    \cup { <<"{", "1", ":">> \o h \o v \o k \o <<"}">> :
             h \in Fill2, k \in Fill2, v \in Texts1 }

TriviaNode(lexeme) ==
    CASE lexeme = " " -> Json5Whitespace
      [] lexeme = "\n" -> Json5Newline
      [] lexeme = "// a,b" -> Json5Comment

AddTrailing(n, f) == [n EXCEPT !.trailing_trivia_nodes = @ \o f]

\* Filler f met before a child, a ',' or a ':' (closing = FALSE) or before
\* the closing delimiter (closing = TRUE) of the frame's container.
AttachFiller(fr, f, closing) ==
    IF f = <<>> THEN fr
    ELSE IF closing THEN [fr EXCEPT !.node = AddTrailing(@, f)]
    ELSE IF fr.pending # <<>> THEN [fr EXCEPT !.pending[1] = AddTrailing(@, f)]
    ELSE IF Children(fr.node) = <<>>
         THEN [fr EXCEPT !.node.leading_trivia_nodes = @ \o f]
    ELSE IF fr.node.kind = "array"
         THEN [fr EXCEPT !.node.members[Len(fr.node.members)] = AddTrailing(@, f)]
    ELSE [fr EXCEPT !.node.data[Len(fr.node.data)].value = AddTrailing(@, f)]

Settled(closing) ==
    IF stack = <<>> THEN stack
    ELSE [stack EXCEPT ![Len(stack)] = AttachFiller(@, filler, closing)]

ParseFiller ==
    /\ pc = "parse"
    /\ input # <<>>
    /\ Head(input) \in TriviaSources
    /\ stack # <<>>
    /\ filler' = Append(filler, TriviaNode(Head(input)))
    /\ input' = Tail(input)
    /\ op' = "ParseFiller"
    /\ UNCHANGED <<stack, root, nextId, pc, result, text, canon, edits>>

ParseOpen ==
    /\ pc = "parse"
    /\ input # <<>>
    /\ Head(input) \in {"[", "{"}
    /\ stack' = Append(Settled(FALSE),
                       Frame(IF Head(input) = "["
                             THEN Json5Array(nextId, <<>>, <<>>)
                             ELSE Json5Object(nextId, <<>>, <<>>), <<>>))
    /\ nextId' = nextId + 1
    /\ filler' = <<>>
    /\ input' = Tail(input)
    /\ op' = "ParseOpen"
    /\ UNCHANGED <<root, pc, result, text, canon, edits>>

\* A literal: the key of the next entry when an object waits for one, a
\* child (or the whole tree) otherwise.
ParsePrimitive ==
    /\ pc = "parse"
    /\ input # <<>>
    /\ Head(input) \in Sources
    /\ LET stk == Settled(FALSE)
           n == NewLiteral(nextId, Head(input), <<>>)
       IN IF stk # <<>> /\ stk[Len(stk)].node.kind = "object"
                        /\ stk[Len(stk)].pending = <<>>
          THEN /\ stack' = [stk EXCEPT ![Len(stk)].pending = <<n>>]
               /\ UNCHANGED <<root, pc>>
          ELSE Deliver(stk, n, "done")
    /\ nextId' = nextId + 1
    /\ filler' = <<>>
    /\ input' = Tail(input)
    /\ op' = "ParsePrimitive"
    /\ UNCHANGED <<result, text, canon, edits>>

\* ',' and ':' are not stored: the serializers write them.
ParseSeparator ==
    /\ pc = "parse"
    /\ input # <<>>
    /\ Head(input) \in {",", ":"}
    /\ stack' = Settled(FALSE)
    /\ filler' = <<>>
    /\ input' = Tail(input)
    /\ op' = "ParseSeparator"
    /\ UNCHANGED <<root, nextId, pc, result, text, canon, edits>>

ParseClose ==
    /\ pc = "parse"
    /\ input # <<>>
    /\ Head(input) \in {"]", "}"}
    /\ LET stk == Settled(TRUE)
       IN Deliver(SubSeq(stk, 1, Len(stk) - 1), stk[Len(stk)].node, "done")
    /\ filler' = <<>>
    /\ input' = Tail(input)
    /\ op' = "ParseClose"
    /\ UNCHANGED <<nextId, result, text, canon, edits>>

\* The tree's to_json() is handed to the parser.
Reparse ==
    /\ pc = "done"
    /\ root # <<>>
    /\ ~Json5Container_raises(root[1])
    /\ canon = <<>>
    /\ canon' = to_json(root[1])
    /\ text' = to_json(root[1])
    /\ input' = to_json(root[1])
    /\ root' = <<>>
    /\ stack' = <<>>
    /\ filler' = <<>>
    /\ nextId' = 1
    /\ pc' = "parse"
    /\ result' = NoResult
    /\ edits' = 0
    /\ op' = "Reparse"

----------------------------------------------------------------------------
\* A client builds a tree and calls the serializers on it.
Init ==
    /\ stack = <<>>
    /\ root = <<>>
    /\ nextId = 1
    /\ pc = "build"
    /\ op = "init"
    /\ result = NoResult
    /\ input = <<>>
    /\ text = <<>>
    /\ filler = <<>>
    /\ canon = <<>>
    /\ edits = 0

Next ==
    \/ \E l \in Literals : NewPrimitive(l)
    \/ \E t \in ScopeTrivia : NewArray(t)
    \/ \E t \in ScopeTrivia : NewObject(t)
    \/ \E t \in ScopeTrivia : NewContainer(t)
    \/ \E l \in Literals : NewKey(l)
    \/ \E i \in 1..MaxMembers : ReuseKey(i)
    \/ Close
    \/ CallToJson5
    \/ CallToJson

Spec == Init /\ [][Next]_vars

\* Trees a client has built: [ p, { k : v } ] for every choice of the three
\* primitives and of the two containers' trivia.
EditTrees ==
    { MembersAppend(
          MembersAppend(Json5Array(1, ta[1], ta[2]), NewLiteral(2, p[1], p[2])),
          DataSetItem(Json5Object(3, to[1], to[2]),
                      NewLiteral(4, k[1], k[2]), NewLiteral(5, v[1], v[2]))) :
        ta \in ScopeTrivia, to \in ScopeTrivia,
        p \in Literals, k \in Literals, v \in Literals }

\* The parser builds the tree of a valid text; the to_json() of that tree,
\* or of a tree a client has built, is then parsed again.
InitParse ==
    /\ stack = <<>>
    /\ nextId = 6
    /\ op = "init"
    /\ result = NoResult
    /\ filler = <<>>
    /\ canon = <<>>
    /\ edits = 0
    /\ \/ pc = "parse" /\ root = <<>> /\ text \in ValidTexts
       \/ pc = "done" /\ root \in { <<t>> : t \in EditTrees } /\ text = <<>>
    /\ input = text

NextParse ==
    \/ ParseFiller
    \/ ParseOpen
    \/ ParsePrimitive
    \/ ParseSeparator
    \/ ParseClose
    \/ Reparse
    \/ CallToJson5
    \/ CallToJson

SpecParse == InitParse /\ [][NextParse]_vars

\* A client holds a finished tree, assigns to primitives of it and calls the
\* serializers.
InitEdit ==
    /\ stack = <<>>
    /\ root \in { <<t>> : t \in EditTrees }
    /\ nextId = 6
    /\ pc = "done"
    /\ op = "init"
    /\ result = NoResult
    /\ input = <<>>
    /\ text = <<>>
    /\ filler = <<>>
    /\ canon = <<>>
    /\ edits = 0

NextEdit ==
    \/ \E p \in (IF root = <<>> THEN {} ELSE PrimPaths(root[1])), s \in Sources :
          SetPrimitive(p, s)
    \/ CallToJson5
    \/ CallToJson

SpecEdit == InitEdit /\ [][NextEdit]_vars

----------------------------------------------------------------------------
\* Vocabulary of the properties.

RECURSIVE Subtrees(_), Strip(_), TriviaListsOf(_), TriviaOf(_)

\* n and every node below it, object keys included.
Subtrees(n) ==
    {n} \cup
    CASE n.kind = "array" ->
            UNION { Subtrees(n.members[i]) : i \in 1..Len(n.members) }
      [] n.kind = "object" ->
            UNION { Subtrees(n.data[i].key) \cup Subtrees(n.data[i].value) :
                    i \in 1..Len(n.data) }
      [] OTHER -> {}

\* Every node the program holds: the finished tree and the containers under
\* construction, with all their descendants and pending keys.
Nodes ==
    UNION ( { Subtrees(root[i]) : i \in 1..Len(root) }
            \cup { Subtrees(stack[i].node) : i \in 1..Len(stack) }
            \cup { Subtrees(stack[i].pending[1]) :
                     i \in { j \in 1..Len(stack) : stack[j].pending # <<>> } } )

Serializable == { n \in Nodes : ~Json5Container_raises(n) }

Arrays == { n \in Nodes : n.kind = "array" }

Objects == { n \in Nodes : n.kind = "object" }

\* n with every trivia list emptied, at every depth.
Strip(n) ==
    CASE n.kind = "primitive" -> [n EXCEPT !.trailing_trivia_nodes = <<>>]
      [] n.kind = "array" ->
            [n EXCEPT !.leading_trivia_nodes = <<>>,
                      !.trailing_trivia_nodes = <<>>,
                      !.members = [i \in 1..Len(@) |-> Strip(@[i])]]
      [] n.kind = "object" ->
            [n EXCEPT !.leading_trivia_nodes = <<>>,
                      !.trailing_trivia_nodes = <<>>,
                      !.data = [i \in 1..Len(@) |->
                                   [key |-> Strip(@[i].key),
                                    value |-> Strip(@[i].value)]]]
      [] OTHER -> n

\* The trivia lists of a tree, one after the other, in depth-first order.
TriviaListsOf(n) ==
    CASE n.kind = "primitive" -> << n.trailing_trivia_nodes >>
      [] n.kind = "array" ->
            << n.leading_trivia_nodes >>
            \o Join(<<>>, [i \in 1..Len(n.members) |-> TriviaListsOf(n.members[i])])
            \o << n.trailing_trivia_nodes >>
      [] n.kind = "object" ->
            << n.leading_trivia_nodes >>
            \o Join(<<>>, [i \in 1..Len(n.data) |->
                              TriviaListsOf(n.data[i].key)
                              \o TriviaListsOf(n.data[i].value)])
            \o << n.trailing_trivia_nodes >>
      [] OTHER -> << n.leading_trivia_nodes, n.trailing_trivia_nodes >>

\* The trivia nodes of a tree.
TriviaOf(n) ==
    LET ls == TriviaListsOf(n)
    IN UNION { { ls[i][j] : j \in 1..Len(ls[i]) } : i \in 1..Len(ls) }

HasTrivia(n) == TriviaOf(n) # {}

Opening == {"[", "{"}

Closing == {"]", "}"}

\* Nesting depth of position i of a text: delimiters opened and not closed
\* before it.
DepthAt(toks, i) ==
    Cardinality({ j \in 1..(i - 1) : toks[j] \in Opening })
    - Cardinality({ j \in 1..(i - 1) : toks[j] \in Closing })

\* The ',' of a container's text that are outside its nested containers.
TopLevelCommas(toks) ==
    { i \in 1..Len(toks) : toks[i] = "," /\ DepthAt(toks, i) = 1 }

RECURSIVE SumLen(_, _)
SumLen(parts, k) == IF k = 0 THEN 0 ELSE Len(parts[k]) + SumLen(parts, k - 1)

\* out is open + lead + the parts, one ',' between two of them and none
\* before the first or after the last + trail + close.
Delimited(out, open, lead, parts, trail, close) ==
    LET n == Len(parts)
        start(i) == 1 + Len(lead) + SumLen(parts, i - 1) + (i - 1)
    IN /\ Len(out) = 2 + Len(lead) + Len(trail) + SumLen(parts, n)
                     + (IF n = 0 THEN 0 ELSE n - 1)
       /\ out[1] = open
       /\ out[Len(out)] = close
       /\ SubSeq(out, 2, 1 + Len(lead)) = lead
       /\ SubSeq(out, Len(out) - Len(trail), Len(out) - 1) = trail
       /\ \A i \in 1..n :
            /\ SubSeq(out, start(i) + 1, start(i) + Len(parts[i])) = parts[i]
            /\ i > 1 => out[start(i)] = ","

----------------------------------------------------------------------------
\* C1: round-trip identity. When the parser has built the tree of a valid
\* text under the attachment rule, the tree's to_json5() is that text,
\* lexeme for lexeme.
C1_RoundTrip ==
    (pc = "done" /\ text # <<>> /\ canon = <<>>) => to_json5(root[1]) = text

----------------------------------------------------------------------------
Filler == {"Json5Comment", "Json5Whitespace", "Json5Newline"}

\* The text of a container with count elements or pairs has one ',' between
\* two consecutive ones, each directly after the end of one and directly
\* before the start of the next.
Separated(out, count) ==
    /\ Cardinality(TopLevelCommas(out)) = (IF count = 0 THEN 0 ELSE count - 1)
    /\ \A i \in 1..Len(out) :
          out[i] = "," =>
             /\ out[i - 1] \in Sources \cup Closing
             /\ out[i + 1] \in Sources \cup Opening

----------------------------------------------------------------------------
\* C3 as stated: an object never holds two keys with equal decoded values.
C3_UniqueByValue ==
    \A o \in Objects :
        \A i, j \in 1..Len(o.data) :
            o.data[i].key.value = o.data[j].key.value => i = j

\* The step data[k] = value from object o to object o2.
PutStep(o, k, o2) ==
    IF \E j \in 1..Len(o.data) : o.data[j].key.id = k.id
    THEN /\ Len(o2.data) = Len(o.data)
         /\ \A j \in 1..Len(o.data) :
               /\ o2.data[j].key.id = o.data[j].key.id
               /\ IF o.data[j].key.id = k.id
                  THEN o2.data[j].value.id # o.data[j].value.id
                  ELSE o2.data[j].value = o.data[j].value
    ELSE /\ Len(o2.data) = Len(o.data) + 1
         /\ SubSeq(o2.data, 1, Len(o.data)) = o.data
         /\ o2.data[Len(o2.data)].key.id = k.id

\* C3 as the code has it: a key is the key object itself. An object never
\* holds one key object twice; data[key] = value with a key object already
\* present keeps every entry in place and gives that entry the new value;
\* with any other key object it adds an entry at the end, whatever the
\* key decodes to.
C3_KeyIdentity ==
    /\ [](\A o \in Objects :
             \A i, j \in 1..Len(o.data) :
                 o.data[i].key.id = o.data[j].key.id => i = j)
    /\ [][\A i \in 1..Len(stack) :
             (/\ i <= Len(stack')
              /\ stack[i].pending # <<>>
              /\ stack'[i].pending = <<>>)
                 => PutStep(stack[i].node, stack[i].pending[1], stack'[i].node)]_vars

C3_Witness ==
    /\ op = "to_json5"
    /\ root # <<>>
    /\ root[1].kind = "object"
    /\ Len(root[1].data) = 2
    /\ root[1].data[1].key.value = root[1].data[2].key.value
    /\ root[1].data[1].key.source # root[1].data[2].key.source
    /\ root[1].data[1].value.id > root[1].data[2].key.id

----------------------------------------------------------------------------
\* C4: canonical idempotence. The parser reads the whole of a tree's
\* to_json(), and the to_json() of the tree it builds is that same text.
C4_CanonicalIdempotent ==
    /\ (pc = "parse" /\ canon # <<>>) => input # <<>>
    /\ (pc = "done" /\ canon # <<>>)
          => /\ root # <<>>
             /\ input = <<>>
             /\ to_json(root[1]) = canon

C4_Witness ==
    /\ pc = "done"
    /\ Len(canon) > 8
    /\ \E i \in 1..Len(canon) : canon[i] = ":"
    /\ \E i \in 1..Len(canon) : canon[i] = "[" /\ DepthAt(canon, i) = 1
    /\ root # <<>>

----------------------------------------------------------------------------
\* C5: an array's to_json5() is "[", the leading trivia, the members'
\* to_json5() in list order with one ',' between two of them and none before
\* the first or after the last, the trailing trivia, "]"; with no member the
\* two trivia lists still stand between the brackets, and with no trivia
\* either the text is "[]".
C5_ArraySource ==
    \A a \in Arrays :
        LET out == to_json5(a)
            lead == [i \in 1..Len(a.leading_trivia_nodes) |->
                        a.leading_trivia_nodes[i].source]
            trail == [i \in 1..Len(a.trailing_trivia_nodes) |->
                         a.trailing_trivia_nodes[i].source]
        IN /\ Delimited(out, "[", lead,
                        [i \in 1..Len(a.members) |-> to_json5(a.members[i])],
                        trail, "]")
           /\ a.members = <<>> => out = <<"[">> \o lead \o trail \o <<"]">>
           /\ (a.members = <<>> /\ lead = <<>> /\ trail = <<>>) => out = <<"[", "]">>

C5_Witness ==
    /\ op = "to_json5"
    /\ root # <<>>
    /\ root[1].kind = "array"
    /\ Len(root[1].members) = 2
    /\ root[1].leading_trivia_nodes # <<>>
    /\ root[1].trailing_trivia_nodes # <<>>
    /\ root[1].members[1].kind = "array"
    /\ root[1].members[1].members = <<>>
    /\ root[1].members[1].leading_trivia_nodes # <<>>
    /\ root[1].members[2].kind = "array"
    /\ root[1].members[2].members = <<>>
    /\ root[1].members[2].leading_trivia_nodes = <<>>
    /\ root[1].members[2].trailing_trivia_nodes = <<>>
    /\ result = CallResult(FALSE, to_json5(root[1]))

----------------------------------------------------------------------------
\* C6: an object's to_json5() is "{", the leading trivia, one piece per
\* entry in insertion order with one ',' between two pieces, the trailing
\* trivia, "}"; a piece is the key's source, the key's trailing trivia, ":",
\* and the value's to_json5().
C6_ObjectSource ==
    \A o \in Objects :
        LET lead == [i \in 1..Len(o.leading_trivia_nodes) |->
                        o.leading_trivia_nodes[i].source]
            trail == [i \in 1..Len(o.trailing_trivia_nodes) |->
                         o.trailing_trivia_nodes[i].source]
            keytrivia(k) == [i \in 1..Len(k.trailing_trivia_nodes) |->
                                k.trailing_trivia_nodes[i].source]
            piece(e) == <<e.key.source>> \o keytrivia(e.key) \o <<":">>
                        \o to_json5(e.value)
        IN /\ Delimited(to_json5(o), "{", lead,
                        [i \in 1..Len(o.data) |-> piece(o.data[i])],
                        trail, "}")
           /\ \A i, j \in 1..Len(o.data) :
                 i < j => o.data[i].key.id < o.data[j].key.id

C6_Witness ==
    /\ op = "to_json5"
    /\ root # <<>>
    /\ root[1].kind = "object"
    /\ Len(root[1].data) = 2
    /\ root[1].leading_trivia_nodes # <<>>
    /\ root[1].data[1].key.trailing_trivia_nodes # <<>>
    /\ root[1].data[1].value.kind = "primitive"
    /\ root[1].data[1].value.trailing_trivia_nodes # <<>>
    /\ root[1].data[2].value.kind = "array"
    /\ result = CallResult(FALSE, to_json5(root[1]))

----------------------------------------------------------------------------
\* C7 as stated: the to_json5() of an array with exactly three members has
\* exactly two ',' outside its nested containers, whatever trivia the array
\* and its members carry.
C7_TwoSeparators ==
    \A a \in Arrays :
        Len(a.members) = 3 => Cardinality(TopLevelCommas(to_json5(a))) = 2

\* The trailing-comma trivia nodes of a list, and those an array with three
\* members writes outside its nested containers.
CommasIn(trivia) == Cardinality({ i \in 1..Len(trivia) : trivia[i].source = "," })

OwnCommaTrivia(a) ==
    LET of(m) == IF m.kind = "primitive" THEN CommasIn(m.trailing_trivia_nodes)
                 ELSE 0
    IN CommasIn(a.leading_trivia_nodes) + CommasIn(a.trailing_trivia_nodes)
       + of(a.members[1]) + of(a.members[2]) + of(a.members[3])

\* C7 as the code has it: the ',' outside the nested containers are the two
\* separators and, besides them, one for each trailing-comma trivia node of
\* the array's own lists and of its primitive members' lists; exactly two
\* when there is no such trivia node.
C7_SeparatorsAndCommaTrivia ==
    \A a \in Arrays :
        Len(a.members) = 3 =>
            LET n == Cardinality(TopLevelCommas(to_json5(a)))
            IN /\ n = 2 + OwnCommaTrivia(a)
               /\ (\A t \in TriviaOf(a) : t.source # ",") => n = 2

C7_Witness ==
    /\ op = "to_json5"
    /\ root # <<>>
    /\ root[1].kind = "array"
    /\ Len(root[1].members) = 3
    /\ \A n \in Subtrees(root[1]) : HasTrivia(n)
    /\ OwnCommaTrivia(root[1]) = 2
    /\ \E i \in 1..3 :
          /\ root[1].members[i].kind = "array"
          /\ Len(root[1].members[i].members) = 2
          /\ CommasIn(root[1].members[i].trailing_trivia_nodes) = 1
    /\ result = CallResult(FALSE, to_json5(root[1]))

----------------------------------------------------------------------------
\* C8: a call of to_json5() or to_json() on a constructed node never raises.
C8_NeverRaises == ~result.raised

----------------------------------------------------------------------------
\* C9: trivia isolation. An assignment to a primitive's source and value
\* leaves every trivia list of the tree as it was, and the tree's to_json5()
\* changes at one lexeme only, from the old literal to the new one.
C9_TriviaIsolation ==
    [][op' = "SetPrimitive" =>
          LET before == to_json5(root[1])
              after == to_json5(root'[1])
              changed == { i \in 1..Len(before) : before[i] # after[i] }
          IN /\ TriviaListsOf(root'[1]) = TriviaListsOf(root[1])
             /\ Len(after) = Len(before)
             /\ Cardinality(changed) = 1
             /\ \A i \in changed : before[i] \in Sources /\ after[i] \in Sources]_vars

C9_Witness ==
    /\ op = "SetPrimitive"
    /\ root[1].leading_trivia_nodes # <<>>
    /\ root[1].members[1].trailing_trivia_nodes # <<>>
    /\ root[1].members[2].trailing_trivia_nodes # <<>>
    /\ root[1].members[2].data[1].key.source = "true"
    /\ root[1].members[2].data[1].key.value = "True"
    /\ root[1].members[2].data[1].key.trailing_trivia_nodes # <<>>
    /\ root[1].members[2].data[1].value.trailing_trivia_nodes # <<>>

----------------------------------------------------------------------------
====
